---- MODULE Spec2Model ----
(***************************************************************************)
(* Model of the Chat component (src/app/components/chat.tsx): the session  *)
(* state held in React state hooks, the send path (handleSubmit,           *)
(* handleSuggestedClick, sendMessage), the stream-event reducer            *)
(* (handleTextCreated .. toolCallDelta, appendMessage, appendToLastMessage,*)
(* annotateLastMessage) and the tool-call dispatcher (handleRequiresAction,*)
(* submitActionResult, handleReadableStream).                              *)
(*                                                                         *)
(* Strings are sequences of symbols.  A symbol is either one character     *)
(* ("a", "b", " ", ...) or one literal fragment of a template string       *)
(* ("/api/files/", "](" ...), so that concatenation, trim and replaceAll   *)
(* are computed on the sequence as the code computes them on the string.   *)
(***************************************************************************)
EXTENDS Integers, Sequences, FiniteSets, TLC

\* ------------------------------------------------------------------------
\* Bounds of the model
\* ------------------------------------------------------------------------
\* the size of a session: its sends plus the size of its events
MaxWork == 4

\* ------------------------------------------------------------------------
\* Input domains
\* ------------------------------------------------------------------------
\* an optional field of an event: absent, or present with a value
Absent == [present |-> FALSE, v |-> <<>>]
Some(v) == [present |-> TRUE, v |-> v]

\* values the user can type into the input box
Inputs == {<<>>, <<" ">>, <<"q">>}

\* the texts of the suggested-question buttons
Suggested == {<<"q">>}

\* delta.value of a textDelta event
DeltaValues == {Absent, Some(<<"a">>), Some(<<"b">>)}

\* image.file_id of an imageFileDone event
ImageFileIds == {"f1"}

Annotation(type, text, fileId) == [type |-> type, text |-> text, file_id |-> fileId]

A1 == Annotation("file_path", <<"a", "b">>, "f1")
A2 == Annotation("file_path", <<"b">>, "f2")
ACit == Annotation("file_citation", <<"a">>, "f1")

\* delta.annotations of a textDelta event
DeltaAnnotations == {Absent, Some(<<A1, A2>>), Some(<<ACit>>)}

ToolKinds == {"code_interpreter", "function"}

\* delta.code_interpreter.input of a toolCallDelta event
CodeInputs == {Some(<<>>), Some(<<"c">>)}

RunIds == {"r1"}

AllToolCallIds == <<"call1", "call2", "call3", "call4">>

\* the injected functionCallHandler: the result it resolves with for a call
HandlerResult == [id \in {"call1", "call2", "call3", "call4"} |-> <<"result of", id>>]

\* ------------------------------------------------------------------------
\* Strings
\* ------------------------------------------------------------------------
\* String.prototype.trim() yields "" exactly when every character is blank
IsBlank(s) == \A i \in 1..Len(s) : s[i] = " "

Tail_n(s, n) == SubSeq(s, n + 1, Len(s))

StartsWith(s, pat) ==
  /\ Len(pat) <= Len(s)
  /\ SubSeq(s, 1, Len(pat)) = pat

Occurs(pat, s) == \E i \in 0..(Len(s) - Len(pat)) : StartsWith(Tail_n(s, i), pat)

\* String.prototype.replaceAll(pat, rep) with a string pattern: matches are
\* found left to right, do not overlap, and the inserted text is not rescanned.
\* An empty pattern matches before every character and at the end.
RECURSIVE ReplaceAllFirstOnly(_, _, _)
ReplaceAllFirstOnly(s, pat, rep) ==
  IF pat = <<>> THEN rep \o s
  ELSE IF Len(s) < Len(pat) THEN s
  ELSE IF StartsWith(s, pat) THEN rep \o Tail_n(s, Len(pat))
  ELSE <<s[1]>> \o ReplaceAllFirstOnly(Tail(s), pat, rep)

RECURSIVE ReplaceAll(_, _, _)
ReplaceAll(s, pat, rep) ==
  IF pat = <<>>
    THEN IF s = <<>> THEN rep
         ELSE rep \o <<s[1]>> \o ReplaceAll(Tail(s), pat, rep)
  ELSE IF Len(s) < Len(pat) THEN s
  ELSE IF StartsWith(s, pat)
    THEN rep \o ReplaceAll(Tail_n(s, Len(pat)), pat, rep)
  ELSE <<s[1]>> \o ReplaceAll(Tail(s), pat, rep)

\* `/api/files/${file_id}`
FilePath(fileId) == <<"/api/files/", fileId>>

\* `\n![${image.file_id}](/api/files/${image.file_id})\n`
ImageMarkdown(fileId) == <<"\n![", fileId, "](">> \o FilePath(fileId) \o <<")\n">>

\* ------------------------------------------------------------------------
\* Messages and the state updaters passed to setMessages
\* ------------------------------------------------------------------------
Msg(role, text) == [role |-> role, text |-> text]

Last(s) == s[Len(s)]

\* prev.slice(0, -1).  (AllButLastTwo is prev.slice(0, -2).)
AllButLastTwo(s) == SubSeq(s, 1, Len(s) - 2)
Front(s) == SubSeq(s, 1, Len(s) - 1)

\* an updater function queued by setMessages((prev) => ...)
Updater(op, role, text, annotations) ==
  [op |-> op, role |-> role, text |-> text, annotations |-> annotations]

AppendUpdater(role, text) == Updater("append", role, text, <<>>)
AppendToLastUpdater(text) == Updater("appendToLast", "", text, <<>>)
AnnotateUpdater(annotations) == Updater("annotate", "", <<>>, annotations)

\* the forEach loop of annotateLastMessage over the annotations, in order
RECURSIVE AnnotateText(_, _)
AnnotateText(text, annotations) ==
  IF annotations = <<>> THEN text
  \* the singleton set binds the replaced text to its value
  ELSE LET a == Head(annotations)
       IN CHOOSE result \in
            {AnnotateText(t, Tail(annotations)) :
               t \in {IF a.type = "file_path"
                        THEN ReplaceAll(text, a.text, FilePath(a.file_id))
                        ELSE text}} : TRUE

HasFilePath(annotations) ==
  \E i \in 1..Len(annotations) : annotations[i].type = "file_path"

\* the updater throws a TypeError: prev is empty, so `last` is undefined and
\* last.text (appendToLastMessage) or updated.text.replaceAll
\* (annotateLastMessage) is a property access on undefined
UpdaterThrows(u, prev) ==
  /\ prev = <<>>
  /\ \/ u.op = "appendToLast"
     \/ u.op = "annotate" /\ HasFilePath(u.annotations)

\* the state an updater uses as `prev`: React passes the state as left by the
\* updaters queued before it.  (StalePrev is the closure's `messages`.)
StalePrev(prev, rendered) == rendered
UpdaterPrev(prev, rendered) == prev

\* the value an updater returns for `prev`
ApplyUpdater(u, prev) ==
  IF UpdaterThrows(u, prev) THEN prev
  ELSE IF u.op = "append" THEN Append(prev, Msg(u.role, u.text))
  ELSE IF u.op = "appendToLast"
    THEN Append(Front(prev), Msg(Last(prev).role, Last(prev).text \o u.text))
  ELSE IF prev = <<>>
    \* {...undefined} is {}: a message without role and text is appended
    THEN <<Msg("undefined", <<>>)>>
  ELSE Append(Front(prev), Msg(Last(prev).role, AnnotateText(Last(prev).text, u.annotations)))

\* React applies the queued updaters in the order they were queued
RECURSIVE ApplyUpdaters(_, _, _)
ApplyUpdaters(queue, prev, rendered) ==
  IF queue = <<>> THEN prev
  \* the singleton set binds the updater's result to its value
  ELSE CHOOSE result \in
         {ApplyUpdaters(Tail(queue), next, rendered) :
            next \in {ApplyUpdater(Head(queue), UpdaterPrev(prev, rendered))}} : TRUE

RECURSIVE AnyUpdaterThrows(_, _)
AnyUpdaterThrows(queue, prev) ==
  IF queue = <<>> THEN FALSE
  ELSE \/ UpdaterThrows(Head(queue), prev)
       \* the singleton set binds the updater's result to its value
       \/ \E next \in {ApplyUpdater(Head(queue), prev)} :
            AnyUpdaterThrows(Tail(queue), next)

\* ------------------------------------------------------------------------
\* Tool calls
\* ------------------------------------------------------------------------
ToolCall(id) == [id |-> id, type |-> "function"]

\* event.data.required_action.submit_tool_outputs.tool_calls: n requests
ToolCallList(n) == [i \in 1..n |-> ToolCall(AllToolCallIds[i])]

\* the promise returned by functionCallHandler(toolCall)
PendingPromise == [state |-> "pending", value |-> <<>>]
Fulfilled(v) == [state |-> "fulfilled", value |-> v]
Rejected == [state |-> "rejected", value |-> <<>>]

NoOutput == [output |-> <<>>, tool_call_id |-> ""]

\* { output: result, tool_call_id: toolCall.id }
ToolCallOutput(result, toolCall) == [output |-> result, tool_call_id |-> toolCall.id]

\* Promise.all stores the value of its i-th promise at index i of the result
PromiseAllStore(values, i, v) == [values EXCEPT ![i] = v]

\* the map callback of handleRequiresAction returns for the i-th call, and
\* Promise.all stores what it returned.  (StoreInCompletionOrder stores the
\* result at the first free index, with the id of the call at that index.)
StoreInCompletionOrder(values, i, result, calls) ==
  LET free == {k \in 1..Len(values) : values[k] = NoOutput}
      k == CHOOSE m \in free : \A o \in free : m <= o
  IN PromiseAllStore(values, k, ToolCallOutput(result, calls[k]))

StoreOutput(values, i, result, calls) ==
  PromiseAllStore(values, i, ToolCallOutput(result, calls[i]))

\* Promise.all fulfils when every promise has fulfilled and rejects as soon
\* as one rejects.  (AllSettled is the join of Promise.allSettled.)
AllSettled(promises) ==
  \A i \in 1..Len(promises) : promises[i].state # "pending"

PromiseAllFulfilled(promises) ==
  \A i \in 1..Len(promises) : promises[i].state = "fulfilled"

PromiseAllRejected(promises) ==
  \E i \in 1..Len(promises) : promises[i].state = "rejected"

\* ------------------------------------------------------------------------
\* State
\* ------------------------------------------------------------------------
VARIABLES
  userInput,      \* useState("")
  messages,       \* useState(initialMessages): the rendered messages
  inputDisabled,  \* useState(false)
  threadId,       \* useState("")
  pending,        \* updaters queued by setMessages and not yet rendered
  renderError,    \* an updater threw while React applied it
  threadPc,       \* createThread: "pending", "done" or "failed"
  sendPc,         \* the latest call of sendMessage
  posted,         \* bodies of the requests sent to .../messages
  stream,         \* the AssistantStream whose listeners are registered
  delivered,      \* size of the events delivered so far: one per message event,
                  \* BatchWork(n) per requires_action event with n tool calls
  dispatchPc,     \* the latest call of handleRequiresAction
  runId,          \* its event.data.id
  toolCalls,      \* its tool_calls
  handlers,       \* the promises of its functionCallHandler calls
  outputs,        \* the values collected by its Promise.all
  actionPosts,    \* bodies of the requests sent to .../actions
  routePc,        \* the latest invocation of POST in the messages route
  threadMessages, \* messages created on the thread by the route
  runs            \* number of runs the route has started on the thread

vars == <<userInput, messages, inputDisabled, threadId, pending, renderError,
          threadPc, sendPc, posted, stream, delivered, dispatchPc, runId,
          toolCalls, handlers, outputs, actionPosts, routePc, threadMessages, runs>>

reactVars == <<userInput, messages, inputDisabled, threadId, pending, renderError>>
dispatchVars == <<dispatchPc, runId, toolCalls, handlers, outputs, actionPosts>>
routeVars == <<routePc, threadMessages, runs>>

\* status: "open", or how the stream ended ("completed", "requires_action",
\* "ended"); listener: "send" (sendMessage) or "action" (handleReadableStream)
NoStream == [listener |-> "none", status |-> "none"]
OpenStream(listener) == [listener |-> listener, status |-> "open"]


\* the size of a requires_action event with n tool calls
BatchWork(n) == IF n = 0 THEN 1 ELSE n

\* the size of the session so far, which the model bounds
Work == Len(posted) + delivered

CurrentMessages == ApplyUpdaters(pending, messages, messages)

Init ==
  /\ userInput = <<>>
  /\ messages = <<>>
  /\ inputDisabled = FALSE
  /\ threadId = ""
  /\ pending = <<>>
  /\ renderError = FALSE
  /\ threadPc = "pending"
  /\ sendPc = "idle"
  /\ posted = <<>>
  /\ stream = NoStream
  /\ delivered = 0
  /\ dispatchPc = "none"
  /\ runId = ""
  /\ toolCalls = <<>>
  /\ handlers = <<>>
  /\ outputs = <<>>
  /\ actionPosts = <<>>
  /\ routePc = "idle"
  /\ threadMessages = <<>>
  /\ runs = 0

\* ------------------------------------------------------------------------
\* Thread creation (the mount effect)
\* ------------------------------------------------------------------------
\* the effect runs again after the thread was created
CreateThreadAgain ==
  /\ threadPc \in {"pending", "done"}
  /\ threadPc' = "done"
  /\ threadId' = (IF threadId = "" THEN "t1" ELSE "t2")
  /\ threadId' # threadId
  /\ UNCHANGED <<userInput, messages, inputDisabled, pending, renderError,
                 sendPc, posted, stream, delivered>>
  /\ UNCHANGED dispatchVars
  /\ UNCHANGED routeVars

CreateThreadResolve ==
  /\ threadPc = "pending"
  /\ threadPc' = "done"
  /\ threadId' = "t1"
  /\ UNCHANGED <<userInput, messages, inputDisabled, pending, renderError,
                 sendPc, posted, stream, delivered>>
  /\ UNCHANGED dispatchVars
  /\ UNCHANGED routeVars

\* fetch or res.json() rejects: setThreadId is never reached
CreateThreadReject ==
  /\ threadPc = "pending"
  /\ threadPc' = "failed"
  /\ UNCHANGED <<sendPc, posted, stream, delivered>>
  /\ UNCHANGED reactVars
  /\ UNCHANGED dispatchVars
  /\ UNCHANGED routeVars

\* ------------------------------------------------------------------------
\* Rendering
\* ------------------------------------------------------------------------
\* React applies the queued updaters, in order, and renders the result
Render ==
  /\ pending # <<>>
  /\ messages' = ApplyUpdaters(pending, messages, messages)
  /\ renderError' = (renderError \/ AnyUpdaterThrows(pending, messages))
  /\ pending' = <<>>
  /\ UNCHANGED <<userInput, inputDisabled, threadId, threadPc, sendPc, posted, stream, delivered>>
  /\ UNCHANGED dispatchVars
  /\ UNCHANGED routeVars

\* setMessages called from a stream callback: the updaters are queued
Enqueue(updaters) ==
  pending' = pending \o updaters

\* the handler's own update is lost
RenderWithoutUpdater(updater) ==
  /\ messages' = ApplyUpdaters(pending, messages, messages)
  /\ renderError' = (renderError \/ AnyUpdaterThrows(pending, messages))
  /\ pending' = <<>>

\* setMessages called from a user event handler: React renders when the
\* handler returns, applying everything queued so far and then this updater
EnqueueAndRender(updater) ==
  /\ messages' = ApplyUpdaters(Append(pending, updater), messages, messages)
  /\ renderError' = (renderError \/ AnyUpdaterThrows(Append(pending, updater), messages))
  /\ pending' = <<>>

\* ------------------------------------------------------------------------
\* Sending
\* ------------------------------------------------------------------------
\* onChange of the input box
SetUserInput(t) ==
  /\ userInput # t
  /\ userInput' = t
  /\ UNCHANGED <<messages, inputDisabled, threadId, pending, renderError,
                 threadPc, sendPc, posted, stream, delivered>>
  /\ UNCHANGED dispatchVars
  /\ UNCHANGED routeVars

\* sendMessage up to its first await
sendMessage(text) ==
  IF threadId = ""
    THEN /\ sendPc' = "aborted"
         /\ UNCHANGED posted
         /\ UNCHANGED routeVars
    ELSE /\ sendPc' = "fetching"
         /\ posted' = Append(posted, text)
         \* the request reaches the route, which parses its body
         /\ routePc' = "creating"
         /\ UNCHANGED <<threadMessages, runs>>

\* the guard does not look at inputDisabled
handleSubmitWhileLocked ==
  /\ Work < MaxWork
  /\ IF IsBlank(userInput)
       THEN UNCHANGED vars
       ELSE /\ EnqueueAndRender(AppendUpdater("user", userInput))
            /\ userInput' = <<>>
            /\ inputDisabled' = TRUE
            /\ sendMessage(userInput)
            /\ UNCHANGED <<threadId, threadPc, stream, delivered>>
            /\ UNCHANGED dispatchVars

handleSubmit ==
  /\ Work < MaxWork
  /\ IF IsBlank(userInput) \/ inputDisabled
       THEN UNCHANGED vars
       ELSE /\ EnqueueAndRender(AppendUpdater("user", userInput))
            /\ userInput' = <<>>
            /\ inputDisabled' = TRUE
            /\ sendMessage(userInput)
            /\ UNCHANGED <<threadId, threadPc, stream, delivered>>
            /\ UNCHANGED dispatchVars

\* the role looked for is not the user's
alreadySentByAssistant(text) ==
  \E i \in 1..Len(messages) : messages[i].role = "assistant" /\ messages[i].text = text

alreadySent(text) ==
  \E i \in 1..Len(messages) : messages[i].role = "user" /\ messages[i].text = text

handleSuggestedClick(text) ==
  /\ Work < MaxWork
  /\ IF text = <<>> \/ inputDisabled \/ alreadySent(text)
       THEN UNCHANGED vars
       ELSE /\ userInput' = <<>>
            /\ inputDisabled' = TRUE
            /\ EnqueueAndRender(AppendUpdater("user", text))
            /\ sendMessage(text)
            /\ UNCHANGED <<threadId, threadPc, stream, delivered>>
            /\ UNCHANGED dispatchVars

\* the response arrives with a 2xx status: the listeners are registered
FetchMessagesOk ==
  /\ sendPc = "fetching"
  /\ routePc = "returned"
  /\ sendPc' = "streaming"
  /\ stream' = OpenStream("send")
  /\ UNCHANGED delivered
  /\ UNCHANGED <<threadPc, posted>>
  /\ UNCHANGED reactVars
  /\ UNCHANGED dispatchVars
  \* the invocation of POST is over
  /\ routePc' = "idle"
  /\ UNCHANGED <<threadMessages, runs>>

\* the catch block of sendMessage
sendMessageCatchNoUnlock ==
  /\ sendPc' = "failed"
  /\ UNCHANGED <<userInput, messages, inputDisabled, threadId, pending, renderError,
                 threadPc, posted, stream, delivered>>
  /\ UNCHANGED dispatchVars
  \* the invocation of POST is over
  /\ routePc' = "idle"
  /\ UNCHANGED <<threadMessages, runs>>

sendMessageCatch ==
  /\ sendPc' = "failed"
  /\ inputDisabled' = FALSE
  /\ UNCHANGED <<userInput, messages, threadId, pending, renderError,
                 threadPc, posted, stream, delivered>>
  /\ UNCHANGED dispatchVars
  \* the invocation of POST is over
  /\ routePc' = "idle"
  /\ UNCHANGED <<threadMessages, runs>>

\* fetch rejects (network error): the connection is lost while the route has
\* not begun to act on the request
FetchMessagesNetworkError ==
  /\ sendPc = "fetching"
  /\ routePc = "creating"
  /\ sendMessageCatch

\* !response.ok: throw new Error(await response.text()); POST has thrown and
\* the framework has answered with a 5xx status
FetchMessagesNotOk ==
  /\ sendPc = "fetching"
  /\ routePc = "failed"
  /\ sendMessageCatch

\* ------------------------------------------------------------------------
\* The messages route (POST /api/assistants/threads/[threadId]/messages)
\* ------------------------------------------------------------------------
clientVars == <<userInput, messages, inputDisabled, threadId, pending, renderError,
                threadPc, sendPc, posted, stream, delivered, dispatchPc, runId,
                toolCalls, handlers, outputs, actionPosts>>

\* await openai.beta.threads.messages.create(...) fulfils
RouteCreateMessageOk ==
  /\ routePc = "creating"
  /\ threadMessages' = Append(threadMessages, [role |-> "user", content |-> Last(posted)])
  /\ routePc' = "created"
  /\ UNCHANGED runs
  /\ UNCHANGED clientVars

\* the creation is not awaited: its rejection does not stop POST
RouteCreateMessageFailsRunStarts ==
  /\ routePc = "creating"
  /\ runs' = runs + 1
  /\ routePc' = "returned"
  /\ UNCHANGED threadMessages
  /\ UNCHANGED clientVars

\* await openai.beta.threads.messages.create(...) rejects: POST throws at its
\* await and the statements after it do not run
RouteCreateMessageFails ==
  /\ routePc = "creating"
  /\ routePc' = "failed"
  /\ UNCHANGED <<threadMessages, runs>>
  /\ UNCHANGED clientVars

\* openai.beta.threads.runs.stream(...) and return new Response(...)
RouteStartRun ==
  /\ routePc = "created"
  /\ runs' = runs + 1
  /\ routePc' = "returned"
  /\ UNCHANGED threadMessages
  /\ UNCHANGED clientVars

\* ------------------------------------------------------------------------
\* Stream events (the listeners registered by sendMessage and by
\* handleReadableStream)
\* ------------------------------------------------------------------------
\* a message event is delivered on the open stream
Deliver ==
  /\ stream.status = "open"
  /\ Work < MaxWork
  /\ delivered' = delivered + 1
  /\ UNCHANGED stream

\* a run event ends the stream: the run is paused or over
DeliverLast(status, size) ==
  /\ stream.status = "open"
  /\ Work + size <= MaxWork
  /\ stream' = [stream EXCEPT !.status = status]
  /\ delivered' = delivered + size

\* JavaScript truthiness of an optional string field ("" is falsy) and of an
\* optional array field ([] is truthy)
Truthy(field) == field.present /\ field.v # <<>>
Present(field) == field.present

handleTextCreated ==
  /\ Deliver
  /\ Enqueue(<<AppendUpdater("assistant", <<>>)>>)
  /\ UNCHANGED <<userInput, messages, inputDisabled, threadId, renderError,
                 threadPc, sendPc, posted>>
  /\ UNCHANGED dispatchVars
  /\ UNCHANGED routeVars

\* the calls of setMessages made by handleTextDelta, in order
TextDeltaAnnotateFirst(value, annotations) ==
  (IF Present(annotations) THEN <<AnnotateUpdater(annotations.v)>> ELSE <<>>)
    \o (IF Truthy(value) THEN <<AppendToLastUpdater(value.v)>> ELSE <<>>)

TextDeltaUpdaters(value, annotations) ==
  (IF Truthy(value) THEN <<AppendToLastUpdater(value.v)>> ELSE <<>>)
    \o (IF Present(annotations) THEN <<AnnotateUpdater(annotations.v)>> ELSE <<>>)

handleTextDelta(value, annotations) ==
  /\ Deliver
  /\ Enqueue(TextDeltaUpdaters(value, annotations))
  /\ UNCHANGED <<userInput, messages, inputDisabled, threadId, renderError,
                 threadPc, sendPc, posted>>
  /\ UNCHANGED dispatchVars
  /\ UNCHANGED routeVars

handleImageFileDone(fileId) ==
  /\ Deliver
  /\ Enqueue(<<AppendToLastUpdater(ImageMarkdown(fileId))>>)
  /\ UNCHANGED <<userInput, messages, inputDisabled, threadId, renderError,
                 threadPc, sendPc, posted>>
  /\ UNCHANGED dispatchVars
  /\ UNCHANGED routeVars

\* a message is appended whatever the type of the tool call
toolCallCreatedAnyKind(type) ==
  /\ Deliver
  /\ Enqueue(<<AppendUpdater("code", <<>>)>>)
  /\ UNCHANGED <<userInput, messages, inputDisabled, threadId, renderError,
                 threadPc, sendPc, posted>>
  /\ UNCHANGED dispatchVars
  /\ UNCHANGED routeVars

toolCallCreated(type) ==
  /\ Deliver
  /\ Enqueue(IF type = "code_interpreter"
               THEN <<AppendUpdater("code", <<>>)>>
               ELSE <<>>)
  /\ UNCHANGED <<userInput, messages, inputDisabled, threadId, renderError,
                 threadPc, sendPc, posted>>
  /\ UNCHANGED dispatchVars
  /\ UNCHANGED routeVars

toolCallDelta(type, input) ==
  /\ Deliver
  /\ Enqueue(IF type = "code_interpreter" /\ Truthy(input)
               THEN <<AppendToLastUpdater(input.v)>>
               ELSE <<>>)
  /\ UNCHANGED <<userInput, messages, inputDisabled, threadId, renderError,
                 threadPc, sendPc, posted>>
  /\ UNCHANGED dispatchVars
  /\ UNCHANGED routeVars

\* thread.run.completed: resolve() of sendMessage's promise on the stream of
\* sendMessage, handleRunCompleted on a stream of handleReadableStream
RunCompletedNoUnlock ==
  /\ DeliverLast("completed", 0)
  /\ sendPc' = (IF stream.listener = "send" THEN "completed" ELSE sendPc)
  /\ UNCHANGED <<userInput, messages, inputDisabled, threadId, pending, renderError,
                 threadPc, posted>>
  /\ UNCHANGED dispatchVars
  /\ UNCHANGED routeVars

\* only the listener of sendMessage unlocks
RunCompletedSendOnly ==
  /\ DeliverLast("completed", 0)
  /\ inputDisabled' = (IF stream.listener = "send" THEN FALSE ELSE inputDisabled)
  /\ sendPc' = (IF stream.listener = "send" THEN "completed" ELSE sendPc)
  /\ UNCHANGED <<userInput, messages, threadId, pending, renderError,
                 threadPc, posted>>
  /\ UNCHANGED dispatchVars
  /\ UNCHANGED routeVars

RunCompleted ==
  /\ DeliverLast("completed", 0)
  /\ inputDisabled' = FALSE
  /\ sendPc' = (IF stream.listener = "send" THEN "completed" ELSE sendPc)
  /\ UNCHANGED <<userInput, messages, threadId, pending, renderError,
                 threadPc, posted>>
  /\ UNCHANGED dispatchVars
  /\ UNCHANGED routeVars

\* the end of the stream unlocks the input
StreamEndsUnlocks ==
  /\ DeliverLast("ended", 0)
  /\ inputDisabled' = FALSE
  /\ UNCHANGED <<userInput, messages, threadId, pending, renderError,
                 threadPc, sendPc, posted>>
  /\ UNCHANGED dispatchVars
  /\ UNCHANGED routeVars

\* the stream ends without thread.run.completed (the run failed, was
\* cancelled or expired, or the connection dropped)
StreamEnds ==
  /\ DeliverLast("ended", 0)
  /\ UNCHANGED <<threadPc, sendPc, posted>>
  /\ UNCHANGED reactVars
  /\ UNCHANGED dispatchVars
  /\ UNCHANGED routeVars

\* ------------------------------------------------------------------------
\* Tool-call dispatch
\* ------------------------------------------------------------------------
\* thread.run.requires_action: handleRequiresAction up to its await; every
\* functionCallHandler is invoked by toolCalls.map before the first await
handleRequiresAction(id, n) ==
  /\ DeliverLast("requires_action", BatchWork(n))
  /\ dispatchPc' = "awaiting"
  /\ runId' = id
  /\ toolCalls' = ToolCallList(n)
  /\ handlers' = [i \in 1..n |-> PendingPromise]
  /\ outputs' = [i \in 1..n |-> NoOutput]
  /\ UNCHANGED <<threadPc, sendPc, posted, actionPosts>>
  /\ UNCHANGED reactVars
  /\ UNCHANGED routeVars

\* functionCallHandler(toolCalls[i]) fulfils: the map callback returns its entry
HandlerFulfils(i) ==
  /\ i \in 1..Len(handlers)
  /\ handlers[i].state = "pending"
  /\ handlers' = [handlers EXCEPT ![i] = Fulfilled(HandlerResult[toolCalls[i].id])]
  /\ outputs' = StoreOutput(outputs, i, HandlerResult[toolCalls[i].id], toolCalls)
  /\ UNCHANGED <<threadPc, sendPc, posted, stream, delivered, dispatchPc, runId, toolCalls, actionPosts>>
  /\ UNCHANGED reactVars
  /\ UNCHANGED routeVars

\* functionCallHandler(toolCalls[i]) rejects
HandlerRejects(i) ==
  /\ i \in 1..Len(handlers)
  /\ handlers[i].state = "pending"
  /\ handlers' = [handlers EXCEPT ![i] = Rejected]
  /\ UNCHANGED <<threadPc, sendPc, posted, stream, delivered, dispatchPc, runId, toolCalls, outputs, actionPosts>>
  /\ UNCHANGED reactVars
  /\ UNCHANGED routeVars

\* Promise.all rejects: the await in handleRequiresAction throws, and the
\* rejection of handleRequiresAction is handled nowhere
handleRequiresActionThrows ==
  /\ dispatchPc = "awaiting"
  /\ PromiseAllRejected(handlers)
  /\ dispatchPc' = "rejected"
  /\ UNCHANGED <<threadPc, sendPc, posted, stream, delivered, runId, toolCalls, handlers, outputs, actionPosts>>
  /\ UNCHANGED reactVars
  /\ UNCHANGED routeVars

\* Promise.all fulfils: handleRequiresAction continues after its await, and
\* submitActionResult runs up to its await
handleRequiresActionContinue ==
  /\ dispatchPc = "awaiting"
  /\ PromiseAllFulfilled(handlers)
  /\ inputDisabled' = TRUE
  /\ actionPosts' = Append(actionPosts, [runId |-> runId, toolCallOutputs |-> outputs])
  /\ dispatchPc' = "submitting"
  /\ UNCHANGED <<userInput, messages, threadId, pending, renderError,
                 threadPc, sendPc, posted, stream, delivered, runId, toolCalls, handlers, outputs>>
  /\ UNCHANGED routeVars

\* the response of .../actions arrives: handleReadableStream registers the listeners
FetchActionsOk ==
  /\ dispatchPc = "submitting"
  /\ dispatchPc' = "resumed"
  /\ stream' = OpenStream("action")
  /\ UNCHANGED delivered
  /\ UNCHANGED <<threadPc, sendPc, posted, runId, toolCalls, handlers, outputs, actionPosts>>
  /\ UNCHANGED reactVars
  /\ UNCHANGED routeVars

\* the response has a non-2xx status: response.ok is not looked at, the
\* listeners are registered on a body that carries no run event
FetchActionsNotOk ==
  /\ dispatchPc = "submitting"
  /\ dispatchPc' = "resumed"
  /\ stream' = [listener |-> "action", status |-> "ended"]
  /\ UNCHANGED delivered
  /\ UNCHANGED <<threadPc, sendPc, posted, runId, toolCalls, handlers, outputs, actionPosts>>
  /\ UNCHANGED reactVars
  /\ UNCHANGED routeVars

\* fetch rejects (network error): submitActionResult rejects, and nothing
\* awaits or catches it
FetchActionsNetworkError ==
  /\ dispatchPc = "submitting"
  /\ dispatchPc' = "submitFailed"
  /\ UNCHANGED <<threadPc, sendPc, posted, stream, delivered, runId, toolCalls, handlers, outputs, actionPosts>>
  /\ UNCHANGED reactVars
  /\ UNCHANGED routeVars

\* ------------------------------------------------------------------------
\* Specification
\* ------------------------------------------------------------------------
\* an updater that throws while React applies it unmounts the component
Mounted == ~renderError

\* React has rendered the updates queued by the stream callbacks of the
\* previous chunk before another task (a user event, a response, a handler's
\* result) runs
Rendered == Mounted /\ pending = <<>>

Next ==
  \/ Rendered /\ CreateThreadResolve
  \/ Rendered /\ CreateThreadReject
  \/ Mounted /\ Render
  \/ Rendered /\ \E t \in Inputs : SetUserInput(t)
  \/ Rendered /\ handleSubmit
  \/ Rendered /\ \E q \in Suggested : handleSuggestedClick(q)
  \/ Rendered /\ RouteCreateMessageOk
  \/ Rendered /\ RouteCreateMessageFails
  \/ Rendered /\ RouteStartRun
  \/ Rendered /\ FetchMessagesOk
  \/ Rendered /\ FetchMessagesNetworkError
  \/ Rendered /\ FetchMessagesNotOk
  \/ Mounted /\ handleTextCreated
  \/ Mounted /\ \E v \in DeltaValues, a \in DeltaAnnotations : handleTextDelta(v, a)
  \/ Mounted /\ \E f \in ImageFileIds : handleImageFileDone(f)
  \/ Mounted /\ \E k \in ToolKinds : toolCallCreated(k)
  \/ Mounted /\ \E c \in CodeInputs : toolCallDelta("code_interpreter", c)
  \/ Mounted /\ toolCallDelta("function", Absent)
  \/ Mounted /\ RunCompleted
  \/ Mounted /\ StreamEnds
  \/ Mounted /\ \E r \in RunIds, n \in 0..Len(AllToolCallIds) : handleRequiresAction(r, n)
  \/ Rendered /\ \E i \in 1..Len(AllToolCallIds) : HandlerFulfils(i)
  \/ Rendered /\ \E i \in 1..Len(AllToolCallIds) : HandlerRejects(i)
  \/ Rendered /\ handleRequiresActionContinue
  \/ Rendered /\ handleRequiresActionThrows
  \/ Rendered /\ FetchActionsOk
  \/ Rendered /\ FetchActionsNotOk
  \/ Rendered /\ FetchActionsNetworkError

Spec == Init /\ [][Next]_vars

\* ------------------------------------------------------------------------
\* The end-to-end scenario: the backend answers every send with the stream
\* TextCreated, TextDelta{v}, RunCompleted
\* ------------------------------------------------------------------------
\* message events delivered on the stream of the latest send
DeliveredOnStream == delivered - 2 * (Len(posted) - 1)

\* the texts v of the scenario
ScriptValues == {<<"a">>, <<"b">>, <<"a", "b">>}

ScriptTextCreated == DeliveredOnStream = 0 /\ handleTextCreated

ScriptTextDelta(v) == DeliveredOnStream = 1 /\ handleTextDelta(Some(v), Absent)

ScriptRunCompleted == DeliveredOnStream = 2 /\ RunCompleted

NextE2E ==
  \/ Rendered /\ CreateThreadResolve
  \/ Mounted /\ Render
  \/ Rendered /\ \E t \in Inputs : SetUserInput(t)
  \/ Rendered /\ handleSubmit
  \/ Rendered /\ \E q \in Suggested : handleSuggestedClick(q)
  \/ Rendered /\ RouteCreateMessageOk
  \/ Rendered /\ RouteStartRun
  \/ Rendered /\ FetchMessagesOk
  \/ Mounted /\ ScriptTextCreated
  \/ Mounted /\ \E v \in ScriptValues : ScriptTextDelta(v)
  \/ Mounted /\ ScriptRunCompleted

SpecE2E == Init /\ [][NextE2E]_vars

\* ------------------------------------------------------------------------
\* Properties
\* ------------------------------------------------------------------------

\* C1: a send started with a thread id locks the input at once (the request
\* is in flight and inputDisabled is true); once thread.run.completed has been
\* processed, or once sendMessage has caught a transport error, inputDisabled
\* is false.
C1_LockedWhileSendingUnlockedAfter ==
  /\ sendPc = "fetching" => inputDisabled
  /\ sendPc \in {"completed", "failed"} => ~inputDisabled
  /\ (stream.status = "completed" /\ sendPc # "fetching") => ~inputDisabled

C1_Witness ==
  /\ Len(posted) = 2
  /\ sendPc = "completed"
  /\ stream.status = "completed"
  /\ ~inputDisabled

\* C2: the input is never left locked after a send attempt has ended; a send
\* attempted before threadId is set is aborted without a request and leaves
\* inputDisabled false.
C2_NeverLeftLocked ==
  /\ sendPc \in {"aborted", "failed", "completed"} => ~inputDisabled
  /\ sendPc = "aborted" => posted = <<>>

\* C3: whatever the order in which the handlers complete, every body sent to
\* the actions endpoint holds exactly one entry per tool call of the event, and
\* each entry pairs a call's id with the result the handler returned for that
\* call.
C3_OutputsPairedWithTheirCall ==
  /\ \A k \in 1..Len(actionPosts) :
       LET outs == actionPosts[k].toolCallOutputs
       IN /\ \A i \in 1..Len(outs) :
               /\ outs[i].tool_call_id \in DOMAIN HandlerResult
               /\ outs[i].output = HandlerResult[outs[i].tool_call_id]
          /\ \A j \in 1..Len(outs) :
               Cardinality({i \in 1..Len(outs) : outs[i].tool_call_id = AllToolCallIds[j]}) = 1
  /\ dispatchPc = "submitting" =>
       /\ actionPosts # <<>>
       /\ Len(Last(actionPosts).toolCallOutputs) = Len(toolCalls)
       /\ \A i \in 1..Len(toolCalls) :
            \E j \in 1..Len(toolCalls) :
              Last(actionPosts).toolCallOutputs[j] =
                [output |-> handlers[i].value, tool_call_id |-> toolCalls[i].id]

C3_Witness ==
  /\ dispatchPc = "submitting"
  /\ Len(Last(actionPosts).toolCallOutputs) = 3

\* C4: a request to the actions endpoint is made only in a step in which every
\* handler of the batch has fulfilled, and it carries the complete list of
\* outputs; so a batch with a failed handler is never submitted, in part or
\* in full.
C4_SubmitOnlyWhenAllFulfilled ==
  [][actionPosts' # actionPosts =>
       /\ \A i \in 1..Len(handlers) : handlers[i].state = "fulfilled"
       /\ Len(outputs) = Len(toolCalls)
       /\ \A i \in 1..Len(outputs) : outputs[i] # NoOutput
       /\ actionPosts' = Append(actionPosts, [runId |-> runId, toolCallOutputs |-> outputs])
    ]_vars

C4_Witness ==
  /\ dispatchPc = "rejected"
  /\ Len(handlers) = 3
  /\ handlers[1].state = "rejected"
  /\ handlers[2].state = "fulfilled"
  /\ handlers[3].state = "fulfilled"
  /\ actionPosts = <<>>

\* C5: onTextCreated appends {assistant, ""}; a TextDelta carrying only a
\* value appends that value to the text of the last message and changes
\* nothing else, whether or not earlier updates are still queued; and
\* rendering a batch of queued updates yields the state that applying them
\* one at a time yields.
C5_DeltasConcatenate ==
  [][/\ handleTextCreated =>
          CurrentMessages' = Append(CurrentMessages, Msg("assistant", <<>>))
     /\ \A v \in DeltaValues :
          (Truthy(v) /\ handleTextDelta(v, Absent) /\ CurrentMessages # <<>>) =>
            \A before \in {CurrentMessages} :
              CurrentMessages' =
                Append(SubSeq(before, 1, Len(before) - 1),
                       Msg(Last(before).role, Last(before).text \o v.v))
     /\ (pending' = <<>> /\ Render) =>
          (messages' = CurrentMessages /\ CurrentMessages' = CurrentMessages)
    ]_vars

C5_Witness ==
  /\ delivered = 3
  /\ pending = <<>>
  /\ messages = <<Msg("user", <<"q">>), Msg("assistant", <<"a", "b">>)>>

\* C6 (as claimed): a TextDelta with a value and annotations annotates the
\* text as it was before the delta and appends the value afterwards, so an
\* occurrence of the source text inside the delta's own value stays.
C6_AnnotateBeforeAppend ==
  [][\A v \in DeltaValues, a \in DeltaAnnotations :
       (Truthy(v) /\ Present(a) /\ handleTextDelta(v, a) /\ CurrentMessages # <<>>) =>
         \A old \in {Last(CurrentMessages).text}, new \in {Last(CurrentMessages').text} :
           new = AnnotateText(old, a.v) \o v.v
    ]_vars

\* C6 (amended): a TextDelta with a value and annotations appends the value
\* first and annotates the text afterwards, so an occurrence of a
\* file-reference annotation's source text inside the delta's own value is
\* replaced as well.
C6_AppendBeforeAnnotate ==
  [][\A v \in DeltaValues, a \in DeltaAnnotations :
       (Truthy(v) /\ Present(a) /\ handleTextDelta(v, a) /\ CurrentMessages # <<>>) =>
         \A old \in {Last(CurrentMessages).text}, new \in {Last(CurrentMessages').text} :
           /\ new = AnnotateText(old \o v.v, a.v)
           /\ (a.v = <<A1, A2>> /\ v.v = A2.text) => ~Occurs(A2.text, new)
    ]_vars

C6_Witness ==
  /\ delivered = 2
  /\ messages = <<Msg("user", <<"q">>), Msg("assistant", <<>>)>>
  /\ pending = <<AppendToLastUpdater(<<"b">>), AnnotateUpdater(<<A1, A2>>)>>
  /\ Last(CurrentMessages) = Msg("assistant", FilePath("f2"))

\* C7: no step shortens the messages list, changes the role of a message, or
\* changes the text of a message other than the last one; this holds of the
\* rendered list and of the list with the queued updates applied.
KeepsAllButLast(old, new) ==
  /\ Len(new) >= Len(old)
  /\ \A i \in 1..Len(old) :
       /\ new[i].role = old[i].role
       /\ i < Len(old) => new[i].text = old[i].text

C7_AppendOnlyExceptLast ==
  [][<<messages, pending>>' # <<messages, pending>> =>
       /\ KeepsAllButLast(messages, messages')
       /\ \A old \in {CurrentMessages}, new \in {CurrentMessages'} : KeepsAllButLast(old, new)
    ]_vars

C7_Witness ==
  /\ Len(messages) = 3
  /\ messages[1].role = "user"
  /\ messages[2] = Msg("assistant", <<>>)
  /\ messages[3] = Msg("code", <<"c">>)

\* C8: onAnnotate replaces, annotation by annotation in the order given, every
\* occurrence of a file-reference annotation's source text in the last
\* message's text by the path of its file; when no file-reference annotation's
\* source text occurs, the text is unchanged; no other message changes and no
\* error is raised.
RECURSIVE FirstMatchFrom(_, _, _)
FirstMatchFrom(t, pat, i) ==
  IF i + Len(pat) - 1 > Len(t) THEN 0
  ELSE IF SubSeq(t, i, i + Len(pat) - 1) = pat THEN i
  ELSE FirstMatchFrom(t, pat, i + 1)

RECURSIVE EveryOccurrenceReplaced(_, _, _, _)
EveryOccurrenceReplaced(t, pat, rep, i) ==
  LET j == FirstMatchFrom(t, pat, i)
  IN IF j = 0 THEN SubSeq(t, i, Len(t))
     ELSE SubSeq(t, i, j - 1) \o rep \o EveryOccurrenceReplaced(t, pat, rep, j + Len(pat))

RECURSIVE AnnotatedInOrder(_, _)
AnnotatedInOrder(t, annotations) ==
  IF annotations = <<>> THEN t
  ELSE LET a == Head(annotations)
       IN AnnotatedInOrder(
            IF a.type = "file_path"
              THEN EveryOccurrenceReplaced(t, a.text, <<"/api/files/", a.file_id>>, 1)
              ELSE t,
            Tail(annotations))

C8_AnnotateReplacesEveryOccurrence ==
  [][\A a \in DeltaAnnotations :
       (handleTextDelta(Absent, a) /\ Present(a) /\ CurrentMessages # <<>>) =>
         \A before \in {CurrentMessages}, after \in {CurrentMessages'} :
           \A old \in {Last(before)}, new \in {Last(after)} :
             /\ new.text = AnnotatedInOrder(old.text, a.v)
             /\ (\A i \in 1..Len(a.v) :
                   a.v[i].type = "file_path" => ~Occurs(a.v[i].text, old.text))
                  => new.text = old.text
             /\ new.role = old.role
             /\ Len(after) = Len(before)
             /\ \A i \in 1..(Len(before) - 1) : after[i] = before[i]
             /\ ~AnyUpdaterThrows(pending', messages')
    ]_vars

C8_Witness ==
  /\ delivered = 3
  /\ Len(CurrentMessages) = 1
  /\ Last(CurrentMessages).text = <<"q", "/api/files/", "f2", "/api/files/", "f2">>

\* C9: in the end-to-end scenario, once the first send has completed, the
\* messages are the user's text followed by the assistant's text v, and the
\* input is unlocked.
C9_EndToEnd ==
  (sendPc = "completed" /\ Len(posted) = 1) =>
    /\ \E v \in ScriptValues :
         CurrentMessages = <<Msg("user", posted[1]), Msg("assistant", v)>>
    /\ pending = <<>> => messages = CurrentMessages
    /\ ~inputDisabled

C9_Witness ==
  /\ sendPc = "completed"
  /\ messages = <<Msg("user", <<"q">>), Msg("assistant", <<"a">>)>>
  /\ pending = <<>>
  /\ ~inputDisabled

\* C10: a transport failure of the request that submits the tool-call outputs
\* is followed by inputDisabled being false.
C10_ActionFailureUnlocks ==
  dispatchPc = "submitFailed" => ~inputDisabled

\* C19: in the messages route the user message is created on the thread
\* before the run is started: every run follows the creation of the message
\* of its request, a response with a stream is returned only after both, and
\* a request whose message creation has failed has started no run.
C19_RunOnlyAfterMessageCreated ==
  /\ runs = Len(threadMessages) - (IF routePc = "created" THEN 1 ELSE 0)
  /\ routePc \in {"created", "returned"} =>
       Last(threadMessages) = [role |-> "user", content |-> Last(posted)]
  /\ routePc = "failed" => Len(threadMessages) < Len(posted)
  /\ (stream.listener = "send" /\ sendPc = "streaming") =>
       /\ runs >= 1
       /\ Last(threadMessages).content = Last(posted)

C19_Witness ==
  /\ routePc = "failed"
  /\ Len(posted) = 2
  /\ threadMessages = <<[role |-> "user", content |-> posted[1]]>>
  /\ runs = 1

\* C11: when a run has paused with thread.run.requires_action and every
\* handler has succeeded, the input is locked once {runId, toolCallOutputs} has
\* been submitted, one request per paused run; the events of the resumed
\* stream are applied to the same messages list, which still begins with what
\* it held before; and once thread.run.completed has been processed on the
\* resumed stream, the input is unlocked.
C11_DispatchLocksSubmitsResumes ==
  /\ dispatchPc \in {"submitting", "resumed", "submitFailed"} =>
       /\ PromiseAllFulfilled(handlers)
       /\ actionPosts # <<>>
       /\ Last(actionPosts) = [runId |-> runId, toolCallOutputs |-> outputs]
  /\ dispatchPc = "submitting" => inputDisabled
  /\ (stream.listener = "action" /\ stream.status = "open") =>
       /\ inputDisabled
       /\ CurrentMessages # <<>>
       /\ CurrentMessages[1].role = "user"
  /\ (stream.listener = "action" /\ stream.status = "completed" /\ sendPc # "fetching") =>
       ~inputDisabled

C11_Witness ==
  /\ stream = [listener |-> "action", status |-> "completed"]
  /\ Len(actionPosts) = 1
  /\ Len(actionPosts[1].toolCallOutputs) = 1
  /\ messages = <<Msg("user", <<"q">>), Msg("assistant", <<"a">>)>>
  /\ pending = <<>>
  /\ ~inputDisabled

\* C12: from the start of a send with a thread id until thread.run.completed
\* has been processed or a transport error has been caught, inputDisabled is
\* true: while the request is in flight, while a stream is open, while a run
\* is paused for its tool calls (whatever the dispatch does), and for ever
\* after a stream that ended without thread.run.completed.
C12_LockedUntilRunCompleted ==
  /\ sendPc = "fetching" => inputDisabled
  /\ stream.status \in {"open", "requires_action", "ended"} => inputDisabled
  /\ sendPc = "streaming" =>
       (inputDisabled \/ (stream.listener = "action" /\ stream.status = "completed"))

C12_Witness ==
  /\ stream = [listener |-> "send", status |-> "ended"]
  /\ delivered = 3
  /\ userInput = <<"q">>
  /\ Len(posted) = 1
  /\ inputDisabled

\* C13: toolCallCreated appends the message {code, ""} exactly when the type
\* is code_interpreter and leaves the messages as they are for every other
\* type; toolCallDelta appends the code input to the text of the last message
\* exactly when the type is code_interpreter and the input is non-empty, and
\* otherwise leaves the messages as they are. Neither changes inputDisabled or
\* threadId.
C13_ToolCallEvents ==
  [][/\ \A k \in ToolKinds :
          (delivered' # delivered /\ toolCallCreated(k)) =>
            /\ \A before \in {CurrentMessages} :
                 CurrentMessages' =
                   IF k = "code_interpreter"
                     THEN Append(before, Msg("code", <<>>))
                     ELSE before
            /\ UNCHANGED <<inputDisabled, threadId>>
     /\ \A k \in ToolKinds, c \in CodeInputs \cup {Absent} :
          (delivered' # delivered /\ toolCallDelta(k, c)) =>
            /\ \A before \in {CurrentMessages} :
                 CurrentMessages' =
                   IF k = "code_interpreter" /\ c.present /\ c.v # <<>>
                     THEN Append(SubSeq(before, 1, Len(before) - 1),
                                 Msg(Last(before).role, Last(before).text \o c.v))
                     ELSE before
            /\ UNCHANGED <<inputDisabled, threadId>>
    ]_vars

C13_Witness ==
  /\ delivered = 3
  /\ Len(CurrentMessages) = 2
  /\ Last(CurrentMessages) = Msg("code", <<"c">>)

\* C14: the thread is created once per session: the one thread-creation
\* request, issued at mount, is answered at most once; threadId changes only
\* from "" to the id returned, in the step that answers the request; and no
\* other step (submit, suggested click, stream event, tool dispatch, error)
\* changes it.
C14_ThreadCreatedOnce ==
  [][/\ threadId' # threadId =>
          /\ threadId = ""
          /\ threadId' # ""
          /\ threadPc = "pending"
          /\ threadPc' = "done"
     /\ threadPc' # threadPc => threadPc = "pending"
     /\ threadPc' = "done" => threadId' # ""
    ]_vars

C14_Witness ==
  /\ threadId = "t1"
  /\ threadPc = "done"
  /\ Len(posted) = 2
  /\ sendPc = "failed"
  /\ dispatchPc = "resumed"
  /\ delivered >= 2

\* C15: whenever a stream exists, the messages list is non-empty and begins
\* with the user message appended by the handler that opened it; so every
\* queued update that targets the last message (appendToLastMessage,
\* annotateLastMessage) finds a last message, none throws, and no render fails.
C15_LastMessageDefined ==
  /\ ~renderError
  /\ ~AnyUpdaterThrows(pending, messages)
  /\ (sendPc # "idle" \/ stream.status # "none") =>
       /\ messages # <<>>
       /\ messages[1].role = "user"
  /\ pending # <<>> => stream.status # "none"

C15_Witness ==
  /\ messages = <<Msg("user", <<"q">>)>>
  /\ pending = <<AppendToLastUpdater(ImageMarkdown("f1")), AnnotateUpdater(<<A1, A2>>)>>
  /\ stream.listener = "action"

\* C16: whatever the order of the events a stream delivers, the text of a
\* message of role user is a text the user submitted or clicked: no stream
\* event changes it.
C16_UserTextNeverModified ==
  \A i \in 1..Len(CurrentMessages) :
    CurrentMessages[i].role = "user" =>
      CurrentMessages[i].text \in Inputs \cup Suggested

\* C17: a step that appends a user message, issues a request to .../messages
\* or changes userInput together with anything else starts with the input
\* unlocked, so while the input is locked handleSubmit and
\* handleSuggestedClick change nothing; a user message that is appended has a
\* text that is neither empty nor whitespace-only; hence such a step starts
\* with no request in flight, no stream open and no dispatch under way, and it
\* locks the input.
C17_NoSendWhileLocked ==
  [][/\ (\/ Len(messages') = Len(messages) + 1 /\ Last(messages').role = "user"
         \/ posted' # posted
         \/ userInput' # userInput /\ ~UNCHANGED <<messages, inputDisabled, sendPc, posted>>)
          => /\ ~inputDisabled
             /\ inputDisabled'
             /\ sendPc # "fetching"
             /\ stream.status # "open"
             /\ dispatchPc \notin {"awaiting", "submitting"}
     /\ (Len(messages') = Len(messages) + 1 /\ Last(messages').role = "user")
          => ~IsBlank(Last(messages').text)
     /\ Len(posted') <= Len(posted) + 1
    ]_vars

C17_Witness ==
  /\ inputDisabled
  /\ userInput = <<"q">>
  /\ stream = [listener |-> "send", status |-> "open"]
  /\ delivered = 2
  /\ Len(posted) = 1
  /\ Len(messages) = 2

\* C18: handleSuggestedClick with a text that is the text of a message of role
\* user changes nothing; so a suggested click that appends a user message
\* appends one whose text is the text of no user message already in the list.
C18_SuggestedClickNoDuplicate ==
  [][\A q \in Suggested :
       (delivered' = delivered /\ handleSuggestedClick(q)) =>
         /\ (\E i \in 1..Len(messages) :
               messages[i].role = "user" /\ messages[i].text = q)
              => UNCHANGED vars
         /\ messages' # messages =>
              /\ messages' = Append(messages, Msg("user", q))
              /\ \A i \in 1..Len(messages) :
                   messages[i].role = "user" => messages[i].text # q
    ]_vars

C18_Witness ==
  /\ messages = <<Msg("user", <<"q">>), Msg("assistant", <<"a">>)>>
  /\ posted = << <<"q">> >>
  /\ sendPc = "completed"
  /\ userInput = <<>>
  /\ ~inputDisabled

====
